---- MODULE Spec2Model ----
(***************************************************************************)
(* Model of the per-tag container test of src/ci/ci.py (class CI):         *)
(* container_test with its nested _endtest, and take_screenshot.  Every    *)
(* call into the container engine, the HTTP client and the browser driver  *)
(* is one step whose result (a value, or an exception) is chosen by the    *)
(* environment.  An exception raised outside a try block leaves            *)
(* container_test (pc = "raised").                                         *)
(***************************************************************************)
EXTENDS Naturals, Sequences, FiniteSets

VARIABLES
    tags,                  \* self.tags, from TAGS
    base,                  \* self.base, from BASE
    screenshot,            \* self.screenshot, from WEB_SCREENSHOT
    screenshot_delay,      \* self.screenshot_delay, from WEB_SCREENSHOT_DELAY
    test_container_delay,  \* self.test_container_delay, from DELAY_START
    tag_report_tests,      \* self.tag_report_tests
    report_containers,     \* self.report_containers
    report_status,         \* self.report_status
    pc,                    \* position in run / container_test / take_screenshot
    i,                     \* index in tags of the tag under test (0: none yet)
    now,                   \* time.time() since t_end was computed, in poll intervals
    polled,                \* the log blobs the wait loop of the current tag has read
    logsfound,             \* local of container_test
    build_version,         \* local of container_test
    packages,              \* local of container_test
    driver,                \* the webdriver session: "none", "open", "closed"
    probe,                 \* result of session.get in the current take_screenshot
    exc,                   \* the exception that left container_test, or "none"
    subjStarted,           \* tag indexes whose subject container was started
    subjRemoves,           \* per tag index: calls of container.remove
    helpStarted,           \* tag indexes whose tester container was started
    helpRemoves,           \* per tag index: calls of testercontainer.remove
    ops,                   \* <<tag index, operation>> pairs performed so far
    again                  \* bookkeeping of a repeated _endtest call

vars == <<tags, base, screenshot, screenshot_delay, test_container_delay,
          tag_report_tests, report_containers, report_status, pc, i, now, polled,
          logsfound, build_version, packages, driver, probe, exc,
          subjStarted, subjRemoves, helpStarted, helpRemoves, ops, again>>

config == <<tags, base, screenshot, screenshot_delay, test_container_delay>>
report == <<tag_report_tests, report_containers, report_status>>
locals == <<logsfound, build_version, packages>>
clock  == <<now, polled>>
shot   == <<driver, probe>>
subj   == <<subjStarted, subjRemoves>>
help   == <<helpStarted, helpRemoves>>

----------------------------------------------------------------------------
(* Bounds of the model *)

MaxTags  == 2      \* longest tag list
Deadline == 2      \* the readiness budget (60 * 5 seconds), in poll intervals
MaxPollTime == 1   \* longest time container.logs() takes to answer, in poll intervals

TagNames   == {"a", "b"}
TagLists   == UNION {[1..n -> TagNames] : n \in 1..MaxTags}
Bases      == {"alpine", "debian", "gentoo"}
DelayTexts == {"5", "abc"}               \* values of DELAY_START
ScreenshotDelayTexts == {"30", "abc"}    \* values of WEB_SCREENSHOT_DELAY

MarkerA == "[services.d] done."
MarkerB == "[ls.io-init] done."
Blobs   == SUBSET {MarkerA, MarkerB}     \* a log blob, by the markers it contains

\* what container.logs() gives a poll: a blob, or an exception
PollResults == [raised : {FALSE}, logblob : Blobs] \cup [raised : {TRUE}, logblob : {{}}]

----------------------------------------------------------------------------
(* Pure helpers *)

\* int(text): defined on decimal texts only, ValueError otherwise
IntOk(text) == text \in {"5", "30"}

\* the marker test with the second marker forgotten
HasMarkerServicesOnly(logblob) == MarkerA \in logblob

\* the marker test of the wait loop
HasMarker(logblob) == MarkerA \in logblob \/ MarkerB \in logblob

\* the package command chosen by base; "unbound" when no branch assigns it
Command(b) ==
    IF b = "alpine" THEN "apk info -v"
    ELSE IF b \in {"debian", "ubuntu"} THEN "apt list"
    ELSE IF b = "fedora" THEN "rpm -qa"
    ELSE IF b = "arch" THEN "pacman -Q"
    ELSE "unbound"

Entry(name, outcome, detail) == <<name, outcome, detail>>

\* an exception leaves container_test: nothing else of the object changes
Escape(e) ==
    /\ pc' = "raised"
    /\ exc' = e

----------------------------------------------------------------------------
Init ==
    /\ tags \in TagLists
    /\ base \in Bases
    /\ screenshot \in {"true", "false"}
    /\ screenshot_delay \in ScreenshotDelayTexts
    /\ test_container_delay \in DelayTexts
    /\ tag_report_tests = <<>>
    /\ report_containers = <<>>
    /\ report_status = "PASS"
    /\ pc = "run"
    /\ i = 0
    /\ now = 0
    /\ polled = <<>>
    /\ logsfound = FALSE
    /\ build_version = "unset"
    /\ packages = "unset"
    /\ driver = "none"
    /\ probe = "none"
    /\ exc = "none"
    /\ subjStarted = {}
    /\ subjRemoves = [k \in 1..Len(tags) |-> 0]
    /\ helpStarted = {}
    /\ helpRemoves = [k \in 1..Len(tags) |-> 0]
    /\ ops = {}
    /\ again = [called |-> FALSE, raised |-> FALSE, added |-> 0]

----------------------------------------------------------------------------
(* run: container_test on each tag in order; an exception ends the run *)

run ==
    /\ pc \in {"run", "raised"}
    /\ IF pc = "raised" THEN pc' = "aborted" /\ i' = i
       ELSE IF i < Len(tags) THEN pc' = "start" /\ i' = i + 1
       ELSE pc' = "done" /\ i' = i
    /\ UNCHANGED <<config, report, clock, locals, shot, exc, subj, help, ops, again>>

----------------------------------------------------------------------------
(* container_test *)

\* lines 101-108: start the subject container, set up the wait loop
StartContainer ==
    /\ pc = "start"
    /\ ops' = ops \cup {<<i, "containers.run">>}
    /\ \E r \in {"ok", "raise"} :
         IF r = "ok"
         THEN /\ subjStarted' = subjStarted \cup {i}
              /\ logsfound' = FALSE
              /\ now' = 0
              /\ polled' = <<>>
              /\ build_version' = "unset"
              /\ packages' = "unset"
              /\ driver' = "none"
              /\ probe' = "none"
              /\ pc' = "poll"
              /\ UNCHANGED exc
         ELSE /\ Escape("containers.run")
              /\ UNCHANGED <<subjStarted, logsfound, clock, build_version, packages,
                             driver, probe>>
    /\ UNCHANGED <<config, report, i, subjRemoves, help, again>>

\* the loop condition that lets one more pass start at the deadline itself
WaitLoopConditionInclusive(t) == t <= Deadline

\* line 109: the condition of the wait loop, t the time since t_end was set
WaitLoopCondition(t) == t < Deadline

\* lines 109-121: one evaluation of the while condition and one pass of its body;
\* container.logs() takes some time to answer, time.sleep(1) takes one interval
PollLogs ==
    /\ pc = "poll"
    /\ IF WaitLoopCondition(now)
       THEN /\ \E r \in PollResults :
              /\ ops' = ops \cup {<<i, "poll">>} \cup
                        (IF r.raised THEN {<<i, "poll raised">>} ELSE {})
              /\ IF r.raised
                    THEN /\ tag_report_tests' = Append(tag_report_tests,
                                Entry("Container startup", "FAIL", "INIT NOT FINISHED"))
                         /\ report_status' = "FAIL"
                         /\ build_version' = "ERROR"
                         /\ packages' = "ERROR"
                         /\ pc' = "endtest"
                         /\ UNCHANGED <<logsfound, clock>>
                    ELSE IF HasMarker(r.logblob)
                    THEN /\ logsfound' = TRUE
                         /\ polled' = Append(polled, r.logblob)
                         /\ pc' = "version"
                         /\ UNCHANGED <<tag_report_tests, report_status, build_version,
                                        packages, now>>
                    ELSE /\ \E e \in 0..MaxPollTime : now' = now + e + 1
                         /\ polled' = Append(polled, r.logblob)
                         /\ pc' = "poll"
                         /\ UNCHANGED <<tag_report_tests, report_status, build_version,
                                        packages, logsfound>>
       ELSE /\ pc' = "version"
            /\ UNCHANGED <<ops, tag_report_tests, report_status, build_version,
                           packages, logsfound, clock>>
    /\ UNCHANGED <<config, report_containers, i, shot, exc, subj, help, again>>

\* lines 122-146: the build_version label, then the verdict on the wait loop
GrabBuildVersion ==
    /\ pc = "version"
    /\ \E r \in {"ok", "raise"} :
       /\ ops' = ops \cup {<<i, "build_version">>} \cup
                 (IF r = "raise" THEN {<<i, "build_version raised">>} ELSE {})
       /\
         IF r = "raise"
         THEN /\ build_version' = "ERROR"
              /\ tag_report_tests' = Append(tag_report_tests,
                     Entry("Get build version", "FAIL", "error"))
              /\ report_status' = "FAIL"
              /\ packages' = "ERROR"
              /\ pc' = "endtest"
         ELSE /\ build_version' = "v1"
              /\ IF logsfound
                 THEN /\ tag_report_tests' = tag_report_tests \o
                            << Entry("Get build version", "PASS", "-"),
                               Entry("Container startup", "PASS", "-") >>
                      /\ pc' = "packages"
                      /\ UNCHANGED <<report_status, packages>>
                 ELSE /\ tag_report_tests' = tag_report_tests \o
                            << Entry("Get build version", "PASS", "-"),
                               Entry("Container startup", "FAIL", "INIT NOT FINISHED") >>
                      /\ report_status' = "FAIL"
                      /\ packages' = "ERROR"
                      /\ pc' = "endtest"
    /\ UNCHANGED <<config, report_containers, i, clock, logsfound, shot, exc, subj,
                   help, again>>

\* DumpPackages that falls through to the settle delay when the dump fails
DumpPackagesThenSettle ==
    /\ pc = "packages"
    /\ \E r \in (IF Command(base) = "unbound" THEN {"raise"} ELSE {"ok", "raise"}) :
         /\ ops' = (IF Command(base) = "unbound" THEN ops
                    ELSE ops \cup {<<i, "exec_run">>}) \cup
                   (IF r = "ok" THEN {} ELSE {<<i, "package dump failed">>})
         /\ IF r = "ok"
            THEN /\ packages' = "pkgs"
                 /\ tag_report_tests' = Append(tag_report_tests,
                        Entry("Dump package info", "PASS", "-"))
                 /\ UNCHANGED report_status
            ELSE /\ packages' = "ERROR"
                 /\ tag_report_tests' = Append(tag_report_tests,
                        Entry("Dump package info", "FAIL", "error"))
                 /\ report_status' = "FAIL"
         /\ pc' = "settle"
    /\ UNCHANGED <<config, report_containers, i, clock, logsfound, build_version,
                   shot, exc, subj, help, again>>

\* lines 147-169: the package dump
DumpPackages ==
    /\ pc = "packages"
    /\ \E r \in (IF Command(base) = "unbound" THEN {"raise"} ELSE {"ok", "raise"}) :
         /\ ops' = (IF Command(base) = "unbound" THEN ops
                    ELSE ops \cup {<<i, "exec_run">>}) \cup
                   (IF r = "ok" THEN {} ELSE {<<i, "package dump failed">>})
         /\ IF r = "ok"
            THEN /\ packages' = "pkgs"
                 /\ tag_report_tests' = Append(tag_report_tests,
                        Entry("Dump package info", "PASS", "-"))
                 /\ pc' = "settle"
                 /\ UNCHANGED report_status
            ELSE /\ packages' = "ERROR"
                 /\ tag_report_tests' = Append(tag_report_tests,
                        Entry("Dump package info", "FAIL", "error"))
                 /\ report_status' = "FAIL"
                 /\ pc' = "endtest"
    /\ UNCHANGED <<config, report_containers, i, clock, logsfound, build_version,
                   shot, exc, subj, help, again>>

\* lines 170-175: the settle delay, then the screenshot switch
Settle ==
    /\ pc = "settle"
    /\ IF IntOk(test_container_delay)
       THEN /\ ops' = ops \cup {<<i, "sleep">>}
            /\ pc' = IF screenshot = "true" THEN "ss_reload" ELSE "endtest"
            /\ UNCHANGED exc
       ELSE /\ Escape("int(test_container_delay)")
            /\ UNCHANGED ops
    /\ UNCHANGED <<config, report, i, clock, locals, shot, subj, help, again>>

----------------------------------------------------------------------------
(* take_screenshot *)

\* lines 295-298: container.reload() and the bridge address, outside any try
SsReload ==
    /\ pc = "ss_reload"
    /\ ops' = ops \cup {<<i, "take_screenshot">>}
    /\ \E r \in {"ok", "raise"} :
         IF r = "ok" THEN pc' = "ss_tester" /\ UNCHANGED exc
         ELSE Escape("container.reload")
    /\ UNCHANGED <<config, report, i, clock, locals, shot, subj, help, again>>

\* lines 299-303: start the tester container
SsStartTester ==
    /\ pc = "ss_tester"
    /\ \E r \in {"ok", "raise"} :
         IF r = "ok"
         THEN /\ helpStarted' = helpStarted \cup {i}
              /\ pc' = "ss_wait"
              /\ UNCHANGED exc
         ELSE /\ Escape("containers.run(tester)")
              /\ UNCHANGED helpStarted
    /\ UNCHANGED <<config, report, i, clock, locals, shot, subj, helpRemoves, ops, again>>

\* lines 304-308: the settle sleep, testercontainer.reload() and its address
SsTesterWait ==
    /\ pc = "ss_wait"
    /\ IF ~IntOk(screenshot_delay)
       THEN Escape("int(screenshot_delay)")
       ELSE \E r \in {"ok", "raise"} :
              IF r = "ok" THEN pc' = "ss_driver" /\ UNCHANGED exc
              ELSE Escape("testercontainer.reload")
    /\ UNCHANGED <<config, report, i, clock, locals, shot, subj, help, ops, again>>

\* lines 310-317 (and 339-342): open the browser session
SsDriver ==
    /\ pc = "ss_driver"
    /\ \E r \in {"ok", "WebDriverException"} :
         IF r = "ok"
         THEN /\ driver' = "open"
              /\ pc' = "ss_probe"
              /\ UNCHANGED tag_report_tests
         ELSE /\ tag_report_tests' = Append(tag_report_tests,
                     Entry("Get screenshot", "FAIL UNKNOWN", r))
              /\ pc' = "ss_remove"
              /\ UNCHANGED driver
    /\ UNCHANGED <<config, report_containers, report_status, i, clock, locals, probe,
                   exc, subj, help, ops, again>>

\* SsProbe with requests.Timeout filed under the browser's TimeoutException
SsProbeTimeoutMisfiled ==
    /\ pc = "ss_probe"
    /\ \E r \in {"ok", "ConnectionError", "Timeout", "Exception"} :
         /\ probe' = r
         /\ IF r = "ok"
            THEN pc' = "ss_browse" /\ UNCHANGED tag_report_tests
            ELSE /\ tag_report_tests' = Append(tag_report_tests,
                        Entry("Get screenshot",
                              IF r = "ConnectionError" THEN "FAIL CONNECTION ERROR"
                              ELSE IF r = "Timeout" THEN "FAIL TIMEOUT"
                              ELSE "FAIL UNKNOWN",
                              r))
                 /\ pc' = "ss_remove"
    /\ UNCHANGED <<config, report_containers, report_status, i, clock, locals, driver,
                   exc, subj, help, ops, again>>

\* lines 318-322 (and 332-342): the HTTP probe of the tester endpoint
SsProbe ==
    /\ pc = "ss_probe"
    /\ \E r \in {"ok", "ConnectionError", "Timeout", "Exception"} :
         /\ probe' = r
         /\ IF r = "ok"
            THEN pc' = "ss_browse" /\ UNCHANGED tag_report_tests
            ELSE /\ tag_report_tests' = Append(tag_report_tests,
                        Entry("Get screenshot",
                              IF r \in {"ConnectionError", "Timeout"}
                              THEN "FAIL CONNECTION ERROR" ELSE "FAIL UNKNOWN",
                              r))
                 /\ pc' = "ss_remove"
    /\ UNCHANGED <<config, report_containers, report_status, i, clock, locals, driver,
                   exc, subj, help, ops, again>>

\* line 323 (and 336-342): load the tester page in the browser
SsBrowse ==
    /\ pc = "ss_browse"
    /\ \E r \in {"ok", "TimeoutException", "WebDriverException"} :
         IF r = "ok"
         THEN pc' = "ss_capture" /\ UNCHANGED tag_report_tests
         ELSE /\ tag_report_tests' = Append(tag_report_tests,
                     Entry("Get screenshot",
                           IF r = "TimeoutException" THEN "FAIL TIMEOUT"
                           ELSE "FAIL UNKNOWN",
                           r))
              /\ pc' = "ss_remove"
    /\ UNCHANGED <<config, report_containers, report_status, i, clock, locals, shot,
                   exc, subj, help, ops, again>>

\* SsCapture without the driver.quit() of the success path
SsCaptureNoQuit ==
    /\ pc = "ss_capture"
    /\ \E r \in {"ok", "WebDriverException"} :
         IF r = "ok"
         THEN /\ tag_report_tests' = Append(tag_report_tests,
                     Entry("Get screenshot", "PASS", "-"))
              /\ UNCHANGED driver
         ELSE /\ tag_report_tests' = Append(tag_report_tests,
                     Entry("Get screenshot", "FAIL UNKNOWN", r))
              /\ UNCHANGED driver
    /\ pc' = "ss_remove"
    /\ UNCHANGED <<config, report_containers, report_status, i, clock, locals, probe,
                   exc, subj, help, ops, again>>

\* lines 324-331 (and 339-342): sleep, save the screenshot, record PASS, quit
\* the browser
SsCapture ==
    /\ pc = "ss_capture"
    /\ \E r \in {"ok", "WebDriverException"} :
         IF r = "ok"
         THEN /\ tag_report_tests' = Append(tag_report_tests,
                     Entry("Get screenshot", "PASS", "-"))
              /\ driver' = "closed"
         ELSE /\ tag_report_tests' = Append(tag_report_tests,
                     Entry("Get screenshot", "FAIL UNKNOWN", r))
              /\ UNCHANGED driver
    /\ pc' = "ss_remove"
    /\ UNCHANGED <<config, report_containers, report_status, i, clock, locals, probe,
                   exc, subj, help, ops, again>>

\* the end of take_screenshot without the removal of the tester container
SsReturnWithoutRemove ==
    /\ pc = "ss_remove"
    /\ pc' = "endtest"
    /\ UNCHANGED <<config, report, i, clock, locals, shot, exc, subj, help, ops, again>>

\* line 343: remove the tester container and return to container_test
SsRemoveTester ==
    /\ pc = "ss_remove"
    /\ helpRemoves' = [helpRemoves EXCEPT ![i] = @ + 1]
    /\ pc' = "endtest"
    /\ UNCHANGED <<config, report, i, clock, locals, shot, exc, subj, helpStarted,
                   ops, again>>

----------------------------------------------------------------------------
(* _endtest *)

\* container.logs() of a handle: the text, or an exception
LogsResults == {"ok", "raise"}

\* container.remove(force='true'): a live container is removed; the engine is
\* free to answer a handle that is already gone either way
RemoveResults(k) == IF subjRemoves[k] = 0 THEN {"ok"} ELSE {"ok", "raise"}

\* EndtestCall that also starts the next tag from a clean status
EndtestCallResetsStatus ==
    \E lg \in LogsResults, rm \in RemoveResults(i) :
        /\ ops' = ops \cup {<<i, "endtest">>}
        /\ IF lg = "raise"
           THEN /\ Escape("container.logs")
                /\ UNCHANGED <<report, subjRemoves>>
           ELSE /\ subjRemoves' = [subjRemoves EXCEPT ![i] = @ + 1]
                /\ IF rm = "raise"
                   THEN /\ Escape("container.remove")
                        /\ UNCHANGED report
                   ELSE /\ report_containers' = Append(report_containers,
                               [tag |-> tags[i],
                                logs |-> "logblob",
                                sysinfo |-> packages,
                                build_version |-> build_version,
                                tag_tests |-> tag_report_tests])
                        /\ tag_report_tests' = <<>>
                        /\ report_status' = "PASS"
                        /\ pc' = "run"
                        /\ UNCHANGED exc

\* EndtestCall that leaves the accumulated tests in place for the next tag
EndtestCallKeepsTests ==
    \E lg \in LogsResults, rm \in RemoveResults(i) :
        /\ ops' = ops \cup {<<i, "endtest">>}
        /\ IF lg = "raise"
           THEN /\ Escape("container.logs")
                /\ UNCHANGED <<report, subjRemoves>>
           ELSE /\ subjRemoves' = [subjRemoves EXCEPT ![i] = @ + 1]
                /\ IF rm = "raise"
                   THEN /\ Escape("container.remove")
                        /\ UNCHANGED report
                   ELSE /\ report_containers' = Append(report_containers,
                               [tag |-> tags[i],
                                logs |-> "logblob",
                                sysinfo |-> packages,
                                build_version |-> build_version,
                                tag_tests |-> tag_report_tests])
                        /\ pc' = "run"
                        /\ UNCHANGED <<tag_report_tests, report_status, exc>>

\* lines 87-100, called with the locals build_version and packages
EndtestCall ==
    \E lg \in LogsResults, rm \in RemoveResults(i) :
        /\ ops' = ops \cup {<<i, "endtest">>}
        /\ IF lg = "raise"
           THEN /\ Escape("container.logs")
                /\ UNCHANGED <<report, subjRemoves>>
           ELSE /\ subjRemoves' = [subjRemoves EXCEPT ![i] = @ + 1]
                /\ IF rm = "raise"
                   THEN /\ Escape("container.remove")
                        /\ UNCHANGED report
                   ELSE /\ report_containers' = Append(report_containers,
                               [tag |-> tags[i],
                                logs |-> "logblob",
                                sysinfo |-> packages,
                                build_version |-> build_version,
                                tag_tests |-> tag_report_tests])
                        /\ tag_report_tests' = <<>>
                        /\ pc' = "run"
                        /\ UNCHANGED <<report_status, exc>>

\* the call of _endtest that ends container_test (lines 120, 132, 145, 168, 177)
Endtest ==
    /\ pc = "endtest"
    /\ EndtestCall
    /\ now' = 0 /\ polled' = <<>>        \* the wait loop's frame is gone
    /\ UNCHANGED <<config, i, locals, shot, subjStarted, help, again>>

\* _endtest called once more for the tag whose container_test has returned
EndtestAgain ==
    /\ pc = "run"
    /\ i >= 1
    /\ ~again.called
    /\ EndtestCall
    /\ again' = [called |-> TRUE,
                 raised |-> (pc' = "raised"),
                 added  |-> Len(report_containers') - Len(report_containers)]
    /\ UNCHANGED <<config, i, clock, locals, shot, subjStarted, help>>

----------------------------------------------------------------------------
Next ==
    \/ run
    \/ StartContainer
    \/ PollLogs
    \/ GrabBuildVersion
    \/ DumpPackages
    \/ Settle
    \/ SsReload
    \/ SsStartTester
    \/ SsTesterWait
    \/ SsDriver
    \/ SsProbe
    \/ SsBrowse
    \/ SsCapture
    \/ SsRemoveTester
    \/ Endtest

Spec == Init /\ [][Next]_vars

\* the same program with one repeated call of _endtest
NextTwice == Next \/ EndtestAgain

SpecTwice == Init /\ [][NextTwice]_vars

\* the program when every call of container.logs() returns and time.sleep ends
SpecFair == Init /\ [][Next]_vars /\ WF_vars(PollLogs)

----------------------------------------------------------------------------
(* Properties *)

NonPass(tests) == {j \in DOMAIN tests : tests[j][2] # "PASS"}
Shots(tests)   == {j \in DOMAIN tests : tests[j][1] = "Get screenshot"}
Did(k, op)     == <<k, op>> \in ops

\* the run is over: every tag was handled, or an exception ended it
RunEnded == pc \in {"done", "aborted"}

\* container_test is not running: before a tag, after its return or its exception
TagEnded == pc \in {"run", "raised", "done", "aborted"}

\* container_test of tag i has returned normally
Returned == pc = "run" /\ i >= 1

CoreTests ==
    << Entry("Get build version", "PASS", "-"),
       Entry("Container startup", "PASS", "-"),
       Entry("Dump package info", "PASS", "-") >>

\* C1: when the run is over, report_containers holds one report per requested
\* tag, in request order.
OneReportPerTag ==
    RunEnded =>
        /\ Len(report_containers) = Len(tags)
        /\ \A k \in 1..Len(tags) : report_containers[k].tag = tags[k]

\* C2: when the run has handled every tag, report_status is FAIL exactly when
\* some report holds a test entry whose outcome is not PASS.
StatusFailIffNonPassEntry ==
    pc = "done" =>
        (report_status = "FAIL"
           <=> \E k \in DOMAIN report_containers :
                   NonPass(report_containers[k].tag_tests) # {})

\* C3: once a tag's processing has ended, every subject container that was
\* started has been removed exactly once.
SubjectRemovedOnce ==
    TagEnded => \A k \in subjStarted : subjRemoves[k] = 1

\* C4: once take_screenshot has ended (by return or by exception), every tester
\* container that was started has been removed exactly once.
TesterRemovedOnce ==
    (TagEnded \/ pc = "endtest") => \A k \in helpStarted : helpRemoves[k] = 1

\* C5: a tag whose container never signalled readiness gets no build-version
\* lookup and no exec_run, its report carries ERROR for build_version and
\* sysinfo and a FAIL Container startup entry, and report_status is FAIL.
NotReadySkipsChecks ==
    (Returned /\ ~logsfound) =>
        /\ ~Did(i, "build_version")
        /\ ~Did(i, "exec_run")
        /\ report_containers[Len(report_containers)].build_version = "ERROR"
        /\ report_containers[Len(report_containers)].sysinfo = "ERROR"
        /\ \E j \in DOMAIN report_containers[Len(report_containers)].tag_tests :
               report_containers[Len(report_containers)].tag_tests[j]
                  = Entry("Container startup", "FAIL", "INIT NOT FINISHED")
        /\ report_status = "FAIL"

\* C6: when starting the subject container fails, a FAIL entry is recorded for
\* the tag, report_status is FAIL, the tag's report is appended, and no later
\* step of the tag is performed.
StartFailureConfined ==
    (TagEnded /\ i >= 1 /\ Did(i, "containers.run") /\ i \notin subjStarted) =>
        /\ report_status = "FAIL"
        /\ Len(report_containers) >= i
        /\ report_containers[i].tag = tags[i]
        /\ NonPass(report_containers[i].tag_tests) # {}
        /\ \A op \in {"poll", "build_version", "exec_run", "sleep", "take_screenshot"} :
               ~Did(i, op)

\* C7: report_status starts as PASS, and a step taken with report_status FAIL
\* leaves it FAIL.
StatusMonotone ==
    /\ report_status = "PASS"
    /\ [][report_status = "FAIL" => report_status' = "FAIL"]_vars

\* C7 witness: a tag failed, and a later tag has since passed all its checks
\* and been finalized with the status still FAIL.
FailKeptAcrossPassingTag ==
    /\ Returned
    /\ i >= 2
    /\ Len(report_containers) = i
    /\ NonPass(report_containers[1].tag_tests) # {}
    /\ NonPass(report_containers[i].tag_tests) = {}
    /\ report_status = "FAIL"

\* C8: once take_screenshot was entered for a tag, the tag ends finalized: the
\* subject container removed, its report appended with the three core entries,
\* build_version and sysinfo untouched and exactly one Get screenshot entry.
ScreenshotAlwaysFinalizes ==
    (TagEnded /\ i >= 1 /\ Did(i, "take_screenshot")) =>
        /\ subjRemoves[i] = 1
        /\ Len(report_containers) >= i
        /\ report_containers[i].tag = tags[i]
        /\ report_containers[i].build_version = "v1"
        /\ report_containers[i].sysinfo = "pkgs"
        /\ Len(report_containers[i].tag_tests) = 4
        /\ SubSeq(report_containers[i].tag_tests, 1, 3) = CoreTests
        /\ Cardinality(Shots(report_containers[i].tag_tests)) = 1

ProbeFailed == probe \in {"ConnectionError", "Timeout"}

\* C9: when the HTTP probe of the tester fails to connect, the failure goes to
\* the handler, never out of take_screenshot; from then until container_test
\* finalizes, the tag holds exactly one Get screenshot entry, with outcome
\* FAIL CONNECTION ERROR, and by the return the tester container is removed.
ProbeFailureRecorded ==
    /\ []((ProbeFailed /\ pc \in {"ss_remove", "endtest"}) =>
            /\ Cardinality(Shots(tag_report_tests)) = 1
            /\ \A j \in Shots(tag_report_tests) :
                   tag_report_tests[j][2] = "FAIL CONNECTION ERROR"
            /\ pc = "endtest" => (i \in helpStarted /\ helpRemoves[i] = 1))
    /\ [][(pc = "ss_probe" /\ probe' \in {"ConnectionError", "Timeout"})
             => (pc' = "ss_remove" /\ exc' = "none")]_vars
    /\ [][(pc = "ss_remove" /\ ProbeFailed)
             => (pc' = "endtest" /\ exc' = "none")]_vars

\* C9 witness: take_screenshot has returned after a probe that timed out.
ProbeTimedOutAndReturned ==
    /\ probe = "Timeout"
    /\ pc = "endtest"
    /\ helpRemoves[i] = 1
    /\ Cardinality(Shots(tag_report_tests)) = 1

\* C10: a second call of _endtest for a container that was already removed
\* neither raises nor appends another report.
TeardownIdempotent ==
    again.called => (~again.raised /\ again.added = 0)

\* C11: with a base family that selects no package command, no subject
\* container is ever started.
UnsupportedBaseStartsNothing ==
    Command(base) = "unbound" =>
        \A k \in 1..Len(tags) : ~Did(k, "containers.run")

\* a log blob with the two markers exchanged, and a sequence of such blobs
SwapMarkers(logblob) == {IF m = MarkerA THEN MarkerB ELSE MarkerA : m \in logblob}
Mirror(blobs) == [j \in DOMAIN blobs |-> SwapMarkers(blobs[j])]

\* container_test is inside the body that follows StartContainer
InTag == ~TagEnded /\ pc # "start"

\* C12: the wait loop run on a sequence of log blobs decides as the marker test
\* decides on the same blobs with the markers exchanged: readiness is declared
\* on a poll iff the exchanged blob holds a marker, no earlier exchanged blob
\* holds one, and the Container startup entry is PASS iff some exchanged blob does.
MarkersSymmetric ==
    InTag =>
        /\ logsfound <=> (polled # <<>> /\ HasMarker(Mirror(polled)[Len(polled)]))
        /\ \A j \in 1..(Len(polled) - 1) : ~HasMarker(Mirror(polled)[j])
        /\ \A j \in DOMAIN tag_report_tests :
              tag_report_tests[j][1] = "Container startup" =>
                 (tag_report_tests[j][2] = "PASS"
                    <=> \E k \in DOMAIN polled : HasMarker(Mirror(polled)[k]))

\* C12 witness: readiness was declared on the second poll, whose log holds the
\* ls.io-init marker alone, and the startup entry is recorded.
ReadyOnSecondMarkerOnly ==
    /\ pc = "packages"
    /\ Len(polled) = 2
    /\ polled[2] = {MarkerB}
    /\ Entry("Container startup", "PASS", "-") \in
          {tag_report_tests[j] : j \in DOMAIN tag_report_tests}

\* C13: a tag whose readiness poll raised ends without an exception leaving
\* container_test: its report is appended with the single FAIL Container
\* startup entry and report_status is FAIL.
PollErrorContained ==
    (TagEnded /\ i >= 1 /\ Did(i, "poll raised")) =>
        /\ exc = "none"
        /\ Len(report_containers) >= i
        /\ report_containers[i].tag = tags[i]
        /\ report_containers[i].tag_tests =
              << Entry("Container startup", "FAIL", "INIT NOT FINISHED") >>
        /\ report_status = "FAIL"

IsPrefix(s, t) == Len(s) <= Len(t) /\ SubSeq(t, 1, Len(s)) = s

\* C14: the accumulator is empty when a tag's container_test begins and only
\* grows until the tag is finalized; a step that changes report_containers
\* appends one report whose tag is the current tag and whose tag_tests is the
\* accumulator, leaves the earlier reports as they are and empties the
\* accumulator.
TagResultsSeparate ==
    /\ [](pc = "start" => tag_report_tests = <<>>)
    /\ [][report_containers' = report_containers
             => IsPrefix(tag_report_tests, tag_report_tests')]_vars
    /\ [][report_containers' # report_containers
             => /\ Len(report_containers') = Len(report_containers) + 1
                /\ IsPrefix(report_containers, report_containers')
                /\ report_containers'[Len(report_containers')].tag = tags[i]
                /\ report_containers'[Len(report_containers')].tag_tests
                      = tag_report_tests
                /\ tag_report_tests' = <<>>]_vars

\* C14 witness: two tags were finalized with different results, the first one
\* ending on a failed package dump.
TwoTagsDifferentResults ==
    /\ Returned
    /\ Len(report_containers) = 2
    /\ Len(report_containers[1].tag_tests) = 3
    /\ NonPass(report_containers[1].tag_tests) = {3}
    /\ Len(report_containers[2].tag_tests) = 4
    /\ NonPass(report_containers[2].tag_tests) = {}
    /\ tag_report_tests = <<>>

\* C15: a tag whose build-version lookup failed ends with a FAIL Get build
\* version entry in its appended report, build_version and sysinfo ERROR,
\* report_status FAIL, and without exec_run, settle delay or screenshot.
VersionFailureShortCircuits ==
    (TagEnded /\ i >= 1 /\ Did(i, "build_version raised")) =>
        /\ report_status = "FAIL"
        /\ ~Did(i, "exec_run")
        /\ ~Did(i, "sleep")
        /\ ~Did(i, "take_screenshot")
        /\ Len(report_containers) >= i
        /\ report_containers[i].build_version = "ERROR"
        /\ report_containers[i].sysinfo = "ERROR"
        /\ \E j \in DOMAIN report_containers[i].tag_tests :
               report_containers[i].tag_tests[j]
                  = Entry("Get build version", "FAIL", "error")

\* C16 as stated: a tag finalized after a failed package dump has had its
\* settle delay.
PackageFailureStillSleeps ==
    (Returned /\ Did(i, "package dump failed")) => Did(i, "sleep")

\* C16 amended: a tag whose package dump failed gets no settle delay and no
\* screenshot; from the failed dump on it is at or past the call of _endtest.
PackageFailureSkipsSettle ==
    \A k \in 1..Len(tags) :
        Did(k, "package dump failed") =>
            /\ ~Did(k, "sleep")
            /\ ~Did(k, "take_screenshot")
            /\ k = i => pc \in {"endtest", "run", "raised", "done", "aborted"}

\* C16 witness: a tag was finalized after its package dump failed.
FinalizedAfterPackageFailure ==
    /\ Returned
    /\ Did(i, "package dump failed")
    /\ Len(report_containers) = i
    /\ report_containers[i].sysinfo = "ERROR"
    /\ report_containers[i].build_version = "v1"
    /\ subjRemoves[i] = 1

PassedShots(tests) == {j \in Shots(tests) : tests[j][2] = "PASS"}

\* C18: when take_screenshot has returned with a browser session opened, the
\* session is closed exactly if a PASS Get screenshot entry was recorded; with
\* a FAIL entry the session is still open and the tester container is removed.
BrowserClosedOnlyOnPass ==
    (pc = "endtest" /\ Did(i, "take_screenshot") /\ driver # "none") =>
        /\ driver = "closed" <=> PassedShots(tag_report_tests) # {}
        /\ (Shots(tag_report_tests) \ PassedShots(tag_report_tests)) # {} =>
              (driver = "open" /\ helpRemoves[i] = 1)

\* C18 witness: the page load timed out, take_screenshot has returned, the
\* tester container is gone and the browser session is open.
BrowserLeftOpenAfterTimeout ==
    /\ pc = "endtest"
    /\ driver = "open"
    /\ helpRemoves[i] = 1
    /\ \E j \in Shots(tag_report_tests) : tag_report_tests[j][2] = "FAIL TIMEOUT"

CoreNames == {"Get build version", "Container startup", "Dump package info"}
CoreFailures(tests) ==
    {j \in DOMAIN tests : tests[j][1] \in CoreNames /\ tests[j][2] # "PASS"}

\* C19: in every report at most one core check failed, a failed core check is
\* the last entry (so no Get screenshot entry follows it), and a report with
\* packages has a build version and a PASS Container startup entry.
CoreFailureIsLast ==
    \A k \in DOMAIN report_containers :
        /\ Cardinality(CoreFailures(report_containers[k].tag_tests)) <= 1
        /\ \A j \in CoreFailures(report_containers[k].tag_tests) :
               j = Len(report_containers[k].tag_tests)
        /\ CoreFailures(report_containers[k].tag_tests) # {} =>
               Shots(report_containers[k].tag_tests) = {}
        /\ report_containers[k].sysinfo # "ERROR" =>
               /\ report_containers[k].build_version # "ERROR"
               /\ \E j \in DOMAIN report_containers[k].tag_tests :
                      report_containers[k].tag_tests[j]
                         = Entry("Container startup", "PASS", "-")

\* C19 witness: a report of a tag that timed out waiting, after its build
\* version was read, next to a report of a tag with a screenshot entry.
ReportsWithAndWithoutCoreFailure ==
    /\ Len(report_containers) = 2
    /\ report_containers[1].tag_tests =
          << Entry("Get build version", "PASS", "-"),
             Entry("Container startup", "FAIL", "INIT NOT FINISHED") >>
    /\ Shots(report_containers[2].tag_tests) = {4}

AliveSubjects == {k \in subjStarted : subjRemoves[k] = 0}
AliveTesters  == {k \in helpStarted : helpRemoves[k] = 0}

\* C20: a tester container exists only for a tag with screenshots enabled, the
\* three core checks passed and the settle delay done; it lives only while the
\* tag's subject container lives and is removed before it; at most one subject
\* and one tester are alive, and none when the next tag's container is started.
LifetimesNested ==
    /\ Cardinality(AliveSubjects) <= 1
    /\ Cardinality(AliveTesters) <= 1
    /\ AliveTesters \subseteq AliveSubjects
    /\ pc = "start" => (AliveSubjects = {} /\ AliveTesters = {})
    /\ \A k \in helpStarted :
          /\ screenshot = "true"
          /\ Did(k, "sleep")
          /\ subjRemoves[k] >= 1 => helpRemoves[k] >= 1
          /\ (k = i /\ InTag) =>
                (Len(tag_report_tests) >= 3 /\ SubSeq(tag_report_tests, 1, 3) = CoreTests)
          /\ Len(report_containers) >= k =>
                SubSeq(report_containers[k].tag_tests, 1, 3) = CoreTests

\* C20 witness: the second tag has its subject and its tester container alive
\* while both containers of the first tag are gone.
SecondTagTesterAlive ==
    /\ i = 2
    /\ AliveSubjects = {2}
    /\ AliveTesters = {2}
    /\ 1 \in helpStarted
    /\ helpRemoves[1] = 1
    /\ subjRemoves[1] = 1

====
